---- MODULE Spec2Model ----
(***************************************************************************)
(* Model of gtsfm's data association (track building from pairwise         *)
(* matches, per-track triangulation, accumulation, component selection)    *)
(* and of the bundle adjustment stage.                                     *)
(***************************************************************************)
EXTENDS Integers, Sequences, FiniteSets, TLC

\* ------------------------------------------------------------------ bounds
\* images of the scene and keypoint indices per image
Images == 0 .. 2
KeypointIdxs == 0 .. 1
\* largest number of correspondences (rows over all entries of matches_dict)
MaxCorr == 3

\* one row of matches_dict[(i1, i2)]: <<i1, k1, i2, k2>>
Correspondences ==
    {c \in Images \X KeypointIdxs \X Images \X KeypointIdxs : c[1] < c[3]}

Left(c) == <<c[1], c[2]>>
Right(c) == <<c[3], c[4]>>
PairOf(c) == <<c[1], c[3]>>

\* keypoints_list[i].coordinates[k]: the pixel coordinate of keypoint k of image i
Coordinates(i, k) == <<10 * i + k, 7 * k + 1>>

VARIABLES
    pc,             \* position in DataAssociation.run
    kp_ndim,        \* keypoints_list[i].coordinates.ndim
    matches,        \* rows of matches_dict not yet merged
    corr_idxs,      \* all rows of matches_dict (the argument, never changed)
    cur_pair,       \* the entry of matches_dict being iterated
    dsf,            \* gtsam.DSFMapIndexPair: [parent, rank]
    num_merges,     \* number of dsf.merge calls made
    tracks_2d,      \* list of SfmTrack2d
    error,          \* the exception raised, or "none"
    min_track_len,  \* DataAssociation.min_track_len
    cameras,        \* the cameras argument of run: image index -> camera
    tri_results,    \* what triangulate returned for tracks_2d[1 .. n]
    counter,        \* triangulation_result_counter
    accepted_errs,  \* per_accepted_track_avg_errors
    rejected_errs,  \* per_rejected_track_avg_errors
    triangulated,   \* triangulated_data: GtsfmData
    output,         \* what run returned: [data, metrics], or NoValue
    ba_pc,          \* position in BundleAdjustmentOptimizer.run
    initial_data,   \* the GtsfmData given to BundleAdjustmentOptimizer.run
    shared_calib,   \* BundleAdjustmentOptimizer._shared_calib
    graph,          \* the NonlinearFactorGraph
    initial_values, \* the initial estimate: key -> value
    lm_outcome,     \* "none", "ok" or "raised": how the LM solve ended
    ba_log,         \* messages logged with logger.exception
    ba_steps,       \* the steps after the solve that were executed, in order
    optimized,      \* optimized_data and its landmarks' reprojection errors
    metrics_dict,   \* the metrics written to bundle_adjustment_metrics.json
    ba_output,      \* what BundleAdjustmentOptimizer.run returned, or NoValue
    ba_error,       \* the exception BundleAdjustmentOptimizer.run raised, or "none"
    eq_pc,          \* position in the comparison of two SfmTrack2d
    eq_self,        \* the measurements of track a
    eq_other,       \* the measurements of track b
    eq_ab,          \* a == b, or NoValue before the comparison
    eq_ba           \* b == a, or NoValue before the comparison

trackVars == <<kp_ndim, matches, corr_idxs, cur_pair, dsf, num_merges, tracks_2d>>

\* ------------------------------------------------ orderings of IndexPair
\* gtsam::IndexPair is a std::pair: ordered lexicographically
PairLess(a, b) == a[1] < b[1] \/ (a[1] = b[1] /\ a[2] < b[2])

MinPair(S) == CHOOSE a \in S : \A b \in S : a = b \/ PairLess(a, b)

\* the elements of a std::set / keys of a std::map in iteration order
RECURSIVE SortedPairs(_)
SortedPairs(S) ==
    IF S = {} THEN <<>>
    ELSE LET m == MinPair(S) IN <<m>> \o SortedPairs(S \ {m})

\* ------------------------------------------------------ disjoint set forest
EmptyDsf == [parent |-> <<>>, rank |-> <<>>]

Entries(d) == DOMAIN d.parent

\* DSFMap::initOrFind: a new key becomes a singleton root of rank 0
DsfInitOrFind(d, x) ==
    IF x \in Entries(d) THEN d
    ELSE [parent |-> [e \in Entries(d) \cup {x} |-> IF e = x THEN x ELSE d.parent[e]],
          rank |-> [e \in Entries(d) \cup {x} |-> IF e = x THEN 0 ELSE d.rank[e]]]

RECURSIVE DsfRoot(_, _)
DsfRoot(d, x) == IF d.parent[x] = x THEN x ELSE DsfRoot(d, d.parent[x])

RECURSIVE DsfPath(_, _)
DsfPath(d, x) == IF d.parent[x] = x THEN {x} ELSE {x} \cup DsfPath(d, d.parent[x])

\* DSFMap::find_ with path compression: every entry on the path points to the root
DsfCompress(d, x) ==
    LET r == DsfRoot(d, x)
        p == DsfPath(d, x)
    IN [d EXCEPT !.parent = [e \in Entries(d) |-> IF e \in p THEN r ELSE d.parent[e]]]

\* DSFMap::merge: union by rank
DsfMerge(d, x, y) ==
    LET d1 == DsfCompress(DsfInitOrFind(d, x), x)
        d2 == DsfCompress(DsfInitOrFind(d1, y), y)
        xRoot == DsfRoot(d2, x)
        yRoot == DsfRoot(d2, y)
    IN IF xRoot = yRoot THEN d2
       ELSE IF d2.rank[xRoot] < d2.rank[yRoot]
            THEN [d2 EXCEPT !.parent[xRoot] = yRoot]
       ELSE IF d2.rank[xRoot] > d2.rank[yRoot]
            THEN [d2 EXCEPT !.parent[yRoot] = xRoot]
       ELSE [d2 EXCEPT !.parent[yRoot] = xRoot, !.rank[xRoot] = d2.rank[xRoot] + 1]

\* dsf.merge(IndexPair(i1, k1), IndexPair(i2, k2)) for one row of an entry
MergeRowSameKeypoint(d, c) == DsfMerge(d, <<c[1], c[2]>>, <<c[3], c[2]>>)

\* a merge made only when one of the two identifiers is new to the forest
MergeRowUnlessKnown(d, c) ==
    IF Left(c) \in Entries(d) /\ Right(c) \in Entries(d) THEN d
    ELSE DsfMerge(d, Left(c), Right(c))

MergeRow(d, c) == DsfMerge(d, Left(c), Right(c))

\* DSFMap::sets: representative -> the entries it represents
DsfSets(d) ==
    LET roots == {DsfRoot(d, e) : e \in Entries(d)}
    IN [r \in roots |-> {e \in Entries(d) : DsfRoot(d, e) = r}]

\* ------------------------------------------------------------ SfmTrack2d
SfmMeasurement(i, uv) == [i |-> i, uv |-> uv]

RECURSIVE CamIdxSet(_)
CamIdxSet(ms) == IF ms = <<>> THEN {} ELSE {Head(ms).i} \cup CamIdxSet(Tail(ms))

\* SfmTrack2d.validate_unique_cameras
ValidateUniqueCamerasDropLast(measurements) ==
    Cardinality(CamIdxSet(measurements)) >= Len(measurements) - 1

validate_unique_cameras(measurements) ==
    Cardinality(CamIdxSet(measurements)) = Len(measurements)

Abs(x) == IF x < 0 THEN 0 - x ELSE x

\* np.allclose with its defaults, |a - b| <= atol + rtol * |b| in every
\* component; coordinates are in units of atol (1e-8), and rtol is 1e-5
AllClose(uv_a, uv_b) ==
    \A c \in DOMAIN uv_a : 100000 * Abs(uv_a[c] - uv_b[c]) <= 100000 + Abs(uv_b[c])

\* SfmMeasurement.__eq__
SfmMeasurementEq(self, other) ==
    IF self.i # other.i THEN FALSE ELSE AllClose(self.uv, other.uv)

\* measurement in measurements (list.__contains__)
Contains(measurements, measurement) ==
    \E n \in 1 .. Len(measurements) : SfmMeasurementEq(measurements[n], measurement)

\* SfmTrack2d.__eq__
SfmTrack2dEq(self, other) ==
    IF Len(self) # Len(other) THEN FALSE
    ELSE \A n \in 1 .. Len(self) : Contains(other, self[n])

\* the measurements of one set of the forest, in the order of IndexPairSetAsArray
TrackMeasurements(index_pair_set) ==
    LET ps == SortedPairs(index_pair_set)
    IN [n \in 1 .. Len(ps) |-> SfmMeasurement(ps[n][1], Coordinates(ps[n][1], ps[n][2]))]

\* the loop over key_set: one track per set, kept if its cameras are unique
RECURSIVE TracksOfSetsKeepAll(_, _)
TracksOfSetsKeepAll(key_set, set_ids) ==
    IF set_ids = <<>> THEN <<>>
    ELSE <<TrackMeasurements(key_set[Head(set_ids)])>>
         \o TracksOfSetsKeepAll(key_set, Tail(set_ids))

RECURSIVE TracksOfSets(_, _)
TracksOfSets(key_set, set_ids) ==
    IF set_ids = <<>> THEN <<>>
    ELSE LET track_2d == TrackMeasurements(key_set[Head(set_ids)])
             rest == TracksOfSets(key_set, Tail(set_ids))
         IN IF validate_unique_cameras(track_2d) THEN <<track_2d>> \o rest ELSE rest

\* ------------------------------------------------- Point3dInitializer
\* Python's None and a present value of an Optional
NoValue == <<>>
Some(x) == <<x>>
ValueOf(o) == o[1]

ExitCodes == {"SUCCESS", "CHEIRALITY_FAILURE", "SMALL_BASELINE", "EXCEEDS_REPROJ_THRESH"}

\* DataAssociation.reproj_error_thresh, in pixels
reproj_error_thresh == 3

\* average reprojection errors under and over the threshold
ErrUnderThresh == reproj_error_thresh - 2
ErrOverThresh == reproj_error_thresh + 6

\* a PinholeCameraCal3Bundler: a pose and a calibration
Camera(pose, calibration) == [pose |-> pose, calibration |-> calibration]

\* the initial estimate of camera i
InitialCamera(i) == Camera(<<"pose", i>>, <<"calibration", i>>)

\* the subsequence of a list at the indices of idxs, in order
RECURSIVE SelectIdxs(_, _, _)
SelectIdxs(ms, idxs, n) ==
    IF n > Len(ms) THEN <<>>
    ELSE IF n \in idxs THEN <<ms[n]>> \o SelectIdxs(ms, idxs, n + 1)
    ELSE SelectIdxs(ms, idxs, n + 1)

\* SfmTrack2d.select_subset
select_subset(measurements, idxs) == SelectIdxs(measurements, idxs, 1)

\* gtsam.SfmTrack: a 3d point and the measurements supporting it
SfmTrack(point3, measurements) == [point3 |-> point3, measurements |-> measurements]

number_measurements(track) == Len(track.measurements)

\* Point3dInitializer.triangulate: the (sfm_track, avg_track_reproj_error, exit code)
\* triples it can return for a track: no landmark on a non-success code, the
\* inliers (two or more, all seen by known cameras) on success
TriangulateOutcomes(track_2d, track_camera_dict) ==
    LET usable == {n \in 1 .. Len(track_2d) : track_2d[n].i \in DOMAIN track_camera_dict}
        inlierSets == {s \in SUBSET usable : Cardinality(s) >= 2}
    IN {[sfm_track |-> NoValue, avg_err |-> NoValue, code |-> "CHEIRALITY_FAILURE"],
        [sfm_track |-> NoValue, avg_err |-> Some(ErrUnderThresh), code |-> "SMALL_BASELINE"],
        [sfm_track |-> NoValue, avg_err |-> Some(ErrOverThresh), code |-> "EXCEEDS_REPROJ_THRESH"]}
       \cup {[sfm_track |-> Some(SfmTrack("triangulated", select_subset(track_2d, s))),
              avg_err |-> Some(ErrUnderThresh), code |-> "SUCCESS"] : s \in inlierSets}

\* truth value of a member of the enum TriangulationExitCode
EnumIsTruthy(code) == code \in ExitCodes

\* ---------------------------------------------------------------- GtsfmData
\* GtsfmData(number_images): no cameras, no tracks
GtsfmData(number_images) == [number_images |-> number_images, cameras |-> <<>>, tracks |-> <<>>]

add_camera(data, i, camera) ==
    [data EXCEPT !.cameras = [c \in DOMAIN @ \cup {i} |-> IF c = i THEN camera ELSE @[c]]]

get_valid_camera_indices(data) == DOMAIN data.cameras

\* add_camera for every entry of a camera dictionary
RECURSIVE AddCameras(_, _, _)
AddCameras(data, camera_dict, todo) ==
    IF todo = {} THEN data
    ELSE LET i == CHOOSE c \in todo : TRUE
         IN AddCameras(add_camera(data, i, camera_dict[i]), camera_dict, todo \ {i})

add_track(data, track) == [data EXCEPT !.tracks = Append(@, track)]

number_tracks(data) == Len(data.tracks)

\* nodes of the visibility graph: cameras and landmarks
CameraNode(i) == <<"camera", i>>
LandmarkNode(j) == <<"landmark", j>>

GraphNodes(data) ==
    {CameraNode(i) : i \in DOMAIN data.cameras} \cup {LandmarkNode(j) : j \in 1 .. Len(data.tracks)}

\* an edge for every measurement
Adjacent(data, a, b) ==
    \/ /\ a[1] = "camera" /\ b[1] = "landmark"
       /\ a[2] \in CamIdxSet(data.tracks[b[2]].measurements)
    \/ /\ a[1] = "landmark" /\ b[1] = "camera"
       /\ b[2] \in CamIdxSet(data.tracks[a[2]].measurements)

RECURSIVE Reach(_, _)
Reach(data, S) ==
    LET more == {b \in GraphNodes(data) : \E a \in S : Adjacent(data, a, b)}
    IN IF more \subseteq S THEN S ELSE Reach(data, S \cup more)

Components(data) == {Reach(data, {n}) : n \in GraphNodes(data)}

\* traversal order of the nodes: cameras by index, then landmarks by index
NodeBefore(a, b) ==
    \/ a[1] = "camera" /\ b[1] = "landmark"
    \/ a[1] = b[1] /\ a[2] < b[2]

FirstNode(S) == CHOOSE a \in S : \A b \in S : a = b \/ NodeBefore(a, b)

\* the largest component by node count, the first encountered among equals
LargestComponent(data) ==
    LET comps == Components(data)
        best == {c \in comps : \A o \in comps : Cardinality(o) <= Cardinality(c)}
    IN IF comps = {} THEN {}
       ELSE CHOOSE c \in best : \A o \in best : c = o \/ NodeBefore(FirstNode(c), FirstNode(o))

RECURSIVE KeepTracks(_, _, _)
KeepTracks(tracks, comp, j) ==
    IF j > Len(tracks) THEN <<>>
    ELSE IF LandmarkNode(j) \in comp THEN <<tracks[j]>> \o KeepTracks(tracks, comp, j + 1)
    ELSE KeepTracks(tracks, comp, j + 1)

\* GtsfmData.select_largest_connected_component
select_largest_connected_component(data) ==
    LET comp == LargestComponent(data)
    IN [number_images |-> data.number_images,
        cameras |-> [i \in {c \in DOMAIN data.cameras : CameraNode(c) \in comp} |-> data.cameras[i]],
        tracks |-> KeepTracks(data.tracks, comp, 1)]

RECURSIVE TrackLengths(_)
TrackLengths(tracks) ==
    IF tracks = <<>> THEN <<>> ELSE <<Len(Head(tracks))>> \o TrackLengths(Tail(tracks))

\* ----------------------------------------------------------- DataAssociation
\* DataAssociation.__validate_track
ValidateTrackStrict(sfm_track, min_len) ==
    sfm_track # NoValue /\ number_measurements(ValueOf(sfm_track)) > min_len

validate_track(sfm_track, min_len) ==
    sfm_track # NoValue /\ number_measurements(ValueOf(sfm_track)) >= min_len

\* the acceptance condition of the accumulating loop
AcceptTrack(sfm_track, track_2d, min_len) ==
    /\ sfm_track # NoValue
    /\ validate_track(sfm_track, min_len)
    /\ EnumIsTruthy("SUCCESS")

\* a / b of two Python ints: the operands of the quotient (b # 0)
Ratio(a, b) == [num |-> a, den |-> b]

EmptyCounter == [c \in ExitCodes |-> 0]


\* ----------------------------------------------------------- bundle adjustment
\* largest number of tracks of a scene given to bundle adjustment
MaxTracks == 2

\* BundleAdjustmentOptimizer._output_reproj_error_thresh, in pixels
output_reproj_error_thresh == 3

\* symbol_shorthand keys; j and i are the 0-based track and camera indices
X(i) == <<"x", i>>
K(i) == <<"k", i>>
P(j) == <<"p", j>>

EmptyGraph == [pose_priors |-> <<>>, calibration_priors |-> <<>>, sfm_factors |-> <<>>]

\* gtsam.Values.insert
insert(values, key, v) ==
    [k \in DOMAIN values \cup {key} |-> IF k = key THEN v ELSE values[k]]

\* BundleAdjustmentOptimizer.__add_camera_prior
add_camera_prior(g, camera, camera_idx, shared) ==
    LET g1 == [g EXCEPT !.pose_priors =
                   Append(@, [key |-> X(camera_idx), prior |-> camera.pose])]
    IN IF camera_idx = 0 \/ ~shared
       THEN [g1 EXCEPT !.calibration_priors =
                Append(@, [key |-> K(camera_idx), prior |-> camera.calibration])]
       ELSE g1

\* BundleAdjustmentOptimizer.__add_camera_initial_value
add_camera_initial_value(values, camera, camera_idx, shared) ==
    LET v1 == insert(values, X(camera_idx), camera.pose)
    IN IF camera_idx = 0 \/ ~shared
       THEN insert(v1, K(camera_idx), camera.calibration)
       ELSE v1

\* a residual for the first measurement of the track only
AddFirstMeasurementFactor(g, track, track_idx, shared, k) ==
    IF k > 1 THEN g
    ELSE LET m == track.measurements[1]
         IN [g EXCEPT !.sfm_factors =
                Append(@, [uv |-> m.uv, x |-> X(m.i), p |-> P(track_idx),
                           k |-> K(IF shared THEN 0 ELSE m.i)])]

\* BundleAdjustmentOptimizer.__add_measurement_factor, from measurement k on
RECURSIVE add_measurement_factor(_, _, _, _, _)
add_measurement_factor(g, track, track_idx, shared, k) ==
    IF k > number_measurements(track) THEN g
    ELSE LET m == track.measurements[k]
             factor == [uv |-> m.uv, x |-> X(m.i), p |-> P(track_idx),
                        k |-> K(IF shared THEN 0 ELSE m.i)]
         IN add_measurement_factor([g EXCEPT !.sfm_factors = Append(@, factor)],
                                   track, track_idx, shared, k + 1)

\* the loop over the tracks: the residuals and the landmarks' initial values
RECURSIVE AddTracks(_, _, _, _)
AddTracks(problem, data, shared, j) ==
    IF j >= number_tracks(data) THEN problem
    ELSE LET track == data.tracks[j + 1]
         IN AddTracks([graph |-> add_measurement_factor(problem.graph, track, j, shared, 1),
                       values |-> insert(problem.values, P(j), track.point3)],
                      data, shared, j + 1)

\* the loop over the valid camera indices: the priors and the initial values
RECURSIVE AddCameraVariables(_, _, _, _)
AddCameraVariables(problem, data, shared, todo) ==
    IF todo = {} THEN problem
    ELSE LET i == CHOOSE c \in todo : \A o \in todo : c <= o
             initialized_cam == data.cameras[i]
         IN AddCameraVariables(
                [graph |-> add_camera_prior(problem.graph, initialized_cam, i, shared),
                 values |-> add_camera_initial_value(problem.values, initialized_cam, i, shared)],
                data, shared, todo \ {i})

\* the factor graph and the initial estimate that run builds
BuildProblem(data, shared) ==
    AddCameraVariables(AddTracks([graph |-> EmptyGraph, values |-> <<>>], data, shared, 0),
                       data, shared, get_valid_camera_indices(data))

\* the keys the factors of a graph refer to
GraphKeys(g) ==
    {g.pose_priors[n].key : n \in 1 .. Len(g.pose_priors)}
    \cup {g.calibration_priors[n].key : n \in 1 .. Len(g.calibration_priors)}
    \cup {g.sfm_factors[n].x : n \in 1 .. Len(g.sfm_factors)}
    \cup {g.sfm_factors[n].p : n \in 1 .. Len(g.sfm_factors)}
    \cup {g.sfm_factors[n].k : n \in 1 .. Len(g.sfm_factors)}

\* LevenbergMarquardtOptimizer can only solve when every key has an initial value
LmCanSolve(g, values) == GraphKeys(g) \subseteq DOMAIN values

\* the solved Values: a refined value for every variable
Optimize(values) == [k \in DOMAIN values |-> <<"optimized", k>>]

\* what run returns when the solve raised
LmFailureReturnsInput(data) == data

LmFailureResult(data) == GtsfmData(data.number_images)

\* the keys values_to_gtsfm_data reads
KeysRead(data, shared) ==
    {X(i) : i \in get_valid_camera_indices(data)}
    \cup {K(IF shared THEN 0 ELSE i) : i \in get_valid_camera_indices(data)}
    \cup {P(j) : j \in 0 .. number_tracks(data) - 1}

\* every result track given the point of landmark 0
ValuesToGtsfmDataFirstPoint(values, data, shared) ==
    [number_images |-> data.number_images,
     cameras |-> [i \in get_valid_camera_indices(data) |->
                     Camera(values[X(i)], values[K(IF shared THEN 0 ELSE i)])],
     tracks |-> [j \in 1 .. number_tracks(data) |->
                    SfmTrack(values[P(0)], data.tracks[j].measurements)]]

\* values_to_gtsfm_data
values_to_gtsfm_data(values, data, shared) ==
    [number_images |-> data.number_images,
     cameras |-> [i \in get_valid_camera_indices(data) |->
                     Camera(values[X(i)], values[K(IF shared THEN 0 ELSE i)])],
     tracks |-> [j \in 1 .. number_tracks(data) |->
                    SfmTrack(values[P(j - 1)], data.tracks[j].measurements)]]

RECURSIVE KeepWithin(_, _, _, _)
KeepWithin(tracks, errs, thresh, j) ==
    IF j > Len(tracks) THEN <<>>
    ELSE IF errs[j] <= thresh THEN <<tracks[j]>> \o KeepWithin(tracks, errs, thresh, j + 1)
    ELSE KeepWithin(tracks, errs, thresh, j + 1)

\* GtsfmData.filter_landmarks: all the cameras, the landmarks within the threshold
filter_landmarks(data, errs, thresh) ==
    [data EXCEPT !.tracks = KeepWithin(data.tracks, errs, thresh, 1)]

\* GtsfmData.aggregate_metrics
aggregate_metrics(data) ==
    [number_tracks |-> number_tracks(data),
     track_lengths_3d |-> TrackLengths([j \in 1 .. Len(data.tracks) |->
                                           data.tracks[j].measurements])]

\* tracks a scene over the cameras cams can hold: two or more measurements of
\* different cameras, by camera index
SceneTracks(cams) ==
    {SfmTrack("triangulated",
              TrackMeasurements({<<i, 0>> : i \in s})) : s \in {t \in SUBSET cams : Cardinality(t) >= 2}}

RECURSIVE TrackLists(_, _)
TrackLists(cams, n) ==
    IF n = 0 THEN {<<>>}
    ELSE LET shorter == TrackLists(cams, n - 1)
         IN shorter \cup {Append(l, t) : l \in {x \in shorter : Len(x) = n - 1},
                                         t \in SceneTracks(cams)}

\* the scenes bundle adjustment is run on
Scenes ==
    {[number_images |-> Cardinality(Images),
      cameras |-> [i \in cams |-> InitialCamera(i)],
      tracks |-> ts] : cams \in SUBSET Images, ts \in TrackLists(Images, MaxTracks)}

SceneModelValid(data) ==
    \A j \in 1 .. Len(data.tracks) :
        CamIdxSet(data.tracks[j].measurements) \subseteq DOMAIN data.cameras

\* ------------------------------------------------------------------ state
Init ==
    /\ pc = "start"
    /\ min_track_len \in {2, 3}
    /\ kp_ndim = [i \in Images |-> 2]
    /\ matches = {}
    /\ corr_idxs = {}
    /\ cur_pair = <<>>
    /\ dsf = EmptyDsf
    /\ num_merges = 0
    /\ tracks_2d = <<>>
    /\ error = "none"
    /\ cameras = <<>>
    /\ tri_results = <<>>
    /\ counter = EmptyCounter
    /\ accepted_errs = <<>>
    /\ rejected_errs = <<>>
    /\ triangulated = GtsfmData(Cardinality(Images))
    /\ output = NoValue
    /\ ba_pc = "start"
    /\ initial_data = GtsfmData(Cardinality(Images))
    /\ shared_calib = FALSE
    /\ graph = EmptyGraph
    /\ initial_values = <<>>
    /\ lm_outcome = "none"
    /\ ba_log = <<>>
    /\ ba_steps = <<>>
    /\ optimized = NoValue
    /\ metrics_dict = NoValue
    /\ ba_output = NoValue
    /\ ba_error = "none"
    /\ eq_pc = "start"
    /\ eq_self = <<>>
    /\ eq_other = <<>>
    /\ eq_ab = NoValue
    /\ eq_ba = NoValue

eqVars == <<eq_pc, eq_self, eq_other, eq_ab, eq_ba>>

baVars ==
    <<ba_pc, initial_data, shared_calib, graph, initial_values, lm_outcome, ba_log,
      ba_steps, optimized, metrics_dict, ba_output, ba_error>>

runVars == <<cameras, tri_results, counter, accepted_errs, rejected_errs, triangulated, output>>

\* the camera dictionaries run is called with
CameraSets == {Images, Images \ {0}}

\* DataAssociation.run is called: the arguments are bound
RunCall ==
    /\ pc = "start"
    /\ \E ndim \in [Images -> {1, 2}], cs \in SUBSET Correspondences, cams \in CameraSets :
        /\ Cardinality(cs) <= MaxCorr
        /\ kp_ndim' = ndim
        /\ corr_idxs' = cs
        /\ matches' = cs
        /\ cameras' = [i \in cams |-> InitialCamera(i)]
    /\ pc' = "check_dims"
    /\ UNCHANGED <<cur_pair, dsf, num_merges, tracks_2d, error, min_track_len>>
    /\ UNCHANGED <<tri_results, counter, accepted_errs, rejected_errs, triangulated, output>>
    /\ UNCHANGED <<baVars, eqVars>>

DimsValid == \A i \in Images : kp_ndim[i] = 2

\* the dimension check at the head of generate_tracks_from_pairwise_matches
CheckDimsSkipped ==
    /\ pc = "check_dims"
    /\ pc' = "merge"
    /\ UNCHANGED <<trackVars, error, min_track_len, runVars, baVars, eqVars>>

CheckDims ==
    /\ pc = "check_dims"
    /\ IF DimsValid
       THEN pc' = "merge" /\ error' = error
       ELSE pc' = "raised" /\ error' = "dims"
    /\ UNCHANGED <<trackVars, min_track_len, runVars, baVars, eqVars>>

\* one dsf.merge: the next row of the current entry of matches_dict, or the
\* first row of the next entry when the current one is exhausted
Merge ==
    /\ pc = "merge"
    /\ \E c \in matches :
        /\ \/ PairOf(c) = cur_pair
           \/ \A o \in matches : PairOf(o) # cur_pair
        /\ dsf' = MergeRow(dsf, c)
        /\ matches' = matches \ {c}
        /\ cur_pair' = PairOf(c)
    /\ num_merges' = num_merges + 1
    /\ UNCHANGED <<pc, kp_ndim, corr_idxs, tracks_2d, error, min_track_len, runVars, baVars, eqVars>>

\* dsf.sets() and the loop building and validating the tracks, then the return
\* to run, which creates the counter, the error lists and triangulated_data
\* with all the cameras; dsf is a local of the track builder and is gone
BuildTracks ==
    /\ pc = "merge"
    /\ matches = {}
    /\ LET key_set == DsfSets(dsf)
       IN tracks_2d' = TracksOfSets(key_set, SortedPairs(DOMAIN key_set))
    /\ dsf' = EmptyDsf
    /\ cur_pair' = <<>>
    /\ triangulated' = AddCameras(GtsfmData(Cardinality(Images)), cameras, DOMAIN cameras)
    /\ pc' = "triangulate"
    /\ UNCHANGED <<kp_ndim, matches, corr_idxs, num_merges, error, min_track_len>>
    /\ UNCHANGED <<cameras, tri_results, counter, accepted_errs, rejected_errs, output, baVars, eqVars>>

\* the elif of the accumulating loop: its condition is an enum member
RejectedOnlyWhenExceeds(exit_code) == exit_code = "EXCEEDS_REPROJ_THRESH"

RejectionRecorded(exit_code) == EnumIsTruthy("EXCEEDS_REPROJ_THRESH")

\* one iteration of the accumulating loop over tracks_2d
Triangulate ==
    /\ pc = "triangulate"
    /\ Len(tri_results) < Len(tracks_2d)
    /\ LET track_2d == tracks_2d[Len(tri_results) + 1]
       IN \E r \in TriangulateOutcomes(track_2d, cameras) :
            /\ tri_results' = Append(tri_results, r)
            /\ counter' = [counter EXCEPT ![r.code] = @ + 1]
            /\ IF AcceptTrack(r.sfm_track, track_2d, min_track_len)
               THEN /\ triangulated' = add_track(triangulated, ValueOf(r.sfm_track))
                    /\ accepted_errs' = Append(accepted_errs, r.avg_err)
                    /\ rejected_errs' = rejected_errs
               ELSE IF RejectionRecorded(r.code)
               THEN /\ rejected_errs' = Append(rejected_errs, r.avg_err)
                    /\ UNCHANGED <<triangulated, accepted_errs>>
               ELSE UNCHANGED <<triangulated, accepted_errs, rejected_errs>>
    /\ UNCHANGED <<pc, trackVars, error, min_track_len, cameras, output, baVars, eqVars>>

\* the metrics group built at the end of run
MetricsOverAccepted(connected_data) ==
    LET n == number_tracks(connected_data)
    IN [track_lengths_2d |-> TrackLengths(tracks_2d),
        accepted_tracks_ratio |-> Ratio(number_tracks(connected_data), Len(tracks_2d)),
        triangulation_success_ratio |-> Ratio(counter["SUCCESS"], n),
        cheirality_failure_ratio |-> Ratio(counter["CHEIRALITY_FAILURE"], n),
        small_baseline_failure_ratio |-> Ratio(counter["SMALL_BASELINE"], n),
        num_accepted_tracks |-> number_tracks(connected_data),
        track_lengths_3d |-> TrackLengths([j \in 1 .. Len(connected_data.tracks) |->
                                              connected_data.tracks[j].measurements]),
        accepted_track_avg_errors_px |-> accepted_errs,
        rejected_track_avg_errors_px |-> rejected_errs]

Metrics(connected_data) ==
    LET n == Len(tracks_2d)
    IN [track_lengths_2d |-> TrackLengths(tracks_2d),
        accepted_tracks_ratio |-> Ratio(number_tracks(connected_data), n),
        triangulation_success_ratio |-> Ratio(counter["SUCCESS"], n),
        cheirality_failure_ratio |-> Ratio(counter["CHEIRALITY_FAILURE"], n),
        small_baseline_failure_ratio |-> Ratio(counter["SMALL_BASELINE"], n),
        num_accepted_tracks |-> number_tracks(connected_data),
        track_lengths_3d |-> TrackLengths([j \in 1 .. Len(connected_data.tracks) |->
                                              connected_data.tracks[j].measurements]),
        accepted_track_avg_errors_px |-> accepted_errs,
        rejected_track_avg_errors_px |-> rejected_errs]

\* after the loop: component selection, the ratios, the metrics, the return
\* the selection and the report without waiting for the end of the loop
SelectAndReportEarly ==
    /\ pc = "triangulate"
    /\ Len(tracks_2d) > 0
    /\ pc' = "done"
    /\ output' = Some([data |-> select_largest_connected_component(triangulated),
                       metrics |-> <<>>])
    /\ UNCHANGED <<trackVars, error, min_track_len, cameras, tri_results, counter>>
    /\ UNCHANGED <<accepted_errs, rejected_errs, triangulated, baVars, eqVars>>

\* the scene handed on after accumulation
ConnectedDataUnselected(triangulated_data) == triangulated_data

ConnectedData(triangulated_data) == select_largest_connected_component(triangulated_data)

SelectAndReport ==
    /\ pc = "triangulate"
    /\ Len(tri_results) = Len(tracks_2d)
    /\ LET connected_data == ConnectedData(triangulated)
       IN IF Len(tracks_2d) = 0
          THEN /\ pc' = "raised"
               /\ error' = "ZeroDivisionError"
               /\ output' = output
          ELSE /\ pc' = "done"
               /\ error' = error
               /\ output' = Some([data |-> connected_data, metrics |-> Metrics(connected_data)])
    /\ UNCHANGED <<trackVars, min_track_len, cameras, tri_results, counter>>
    /\ UNCHANGED <<accepted_errs, rejected_errs, triangulated, baVars, eqVars>>


daVars ==
    <<pc, kp_ndim, matches, corr_idxs, cur_pair, dsf, num_merges, tracks_2d, error,
      min_track_len, cameras, tri_results, counter, accepted_errs, rejected_errs,
      triangulated, output>>

\* BundleAdjustmentOptimizer.run is called on a scene
BaRunCall ==
    /\ ba_pc = "start"
    /\ \E data \in Scenes, shared \in BOOLEAN :
        /\ SceneModelValid(data)
        /\ initial_data' = data
        /\ shared_calib' = shared
    /\ ba_pc' = "build"
    /\ UNCHANGED <<graph, initial_values, lm_outcome, ba_log, ba_steps, optimized,
                   metrics_dict, ba_output, ba_error, daVars, eqVars>>

\* the two loops that fill the factor graph and the initial estimate
BaBuildGraph ==
    /\ ba_pc = "build"
    /\ LET problem == BuildProblem(initial_data, shared_calib)
       IN /\ graph' = problem.graph
          /\ initial_values' = problem.values
    /\ ba_pc' = "optimize"
    /\ UNCHANGED <<initial_data, shared_calib, lm_outcome, ba_log, ba_steps, optimized,
                   metrics_dict, ba_output, ba_error, daVars, eqVars>>

\* the try block: the solve raises (always when a key has no initial value),
\* is logged and run returns; or it yields the solved values
BaOptimize ==
    /\ ba_pc = "optimize"
    /\ \/ /\ lm_outcome' = "raised"
          /\ ba_log' = Append(ba_log, "LM Optimization failed")
          /\ ba_output' = Some(LmFailureResult(initial_data))
          /\ ba_pc' = "returned"
          /\ UNCHANGED initial_values
       \/ /\ LmCanSolve(graph, initial_values)
          /\ lm_outcome' = "ok"
          /\ initial_values' = initial_values
          /\ ba_pc' = "report"
          /\ UNCHANGED <<ba_log, ba_output>>
    /\ UNCHANGED <<initial_data, shared_calib, graph, ba_steps, optimized, metrics_dict,
                   ba_error, daVars, eqVars>>

\* what run returns after a successful solve
ReturnsUnfiltered(optimized_data, filtered_result) == optimized_data

ReturnedResult(optimized_data, filtered_result) == filtered_result

\* after the solve: the errors, values_to_gtsfm_data (which raises when a key it
\* reads has no value), the metrics before and after filter_landmarks, the
\* metrics file, the return of the filtered result
BaReport ==
    /\ ba_pc = "report"
    /\ LET result_values == Optimize(initial_values)
       IN IF ~(KeysRead(initial_data, shared_calib) \subseteq DOMAIN result_values)
          THEN /\ ba_steps' = <<"error_report">>
               /\ ba_error' = "ValuesKeyDoesNotExist"
               /\ ba_pc' = "raised"
               /\ UNCHANGED <<optimized, metrics_dict, ba_output>>
          ELSE \E errs \in [1 .. number_tracks(initial_data) ->
                               {output_reproj_error_thresh - 1, output_reproj_error_thresh,
                                output_reproj_error_thresh + 1}] :
                LET optimized_data == values_to_gtsfm_data(result_values, initial_data, shared_calib)
                    filtered_result == filter_landmarks(optimized_data, errs,
                                                        output_reproj_error_thresh)
                IN /\ optimized' = Some([data |-> optimized_data, errs |-> errs])
                   /\ metrics_dict' = Some([before_filtering |-> aggregate_metrics(optimized_data),
                                            after_filtering |-> aggregate_metrics(filtered_result)])
                   /\ ba_steps' = <<"error_report", "metrics_before", "filter_landmarks",
                                    "metrics_after", "save_json_file">>
                   /\ ba_output' = Some(ReturnedResult(optimized_data, filtered_result))
                   /\ ba_error' = ba_error
                   /\ ba_pc' = "returned"
    /\ UNCHANGED <<initial_data, shared_calib, graph, initial_values, lm_outcome, ba_log, daVars, eqVars>>

\* ---- comparing two SfmTrack2d
MaxEqLen == 2

EqCoordinates == {<<0, 0>>, <<1, 0>>, <<1000, 0>>}

EqMeasurements == {SfmMeasurement(i, uv) : i \in 0 .. 1, uv \in EqCoordinates}

EqTracks == UNION {[1 .. n -> EqMeasurements] : n \in 0 .. MaxEqLen}

\* two tracks are constructed
EqConstruct ==
    /\ eq_pc = "start"
    /\ \E a \in EqTracks, b \in EqTracks :
         /\ eq_self' = a
         /\ eq_other' = b
    /\ eq_pc' = "constructed"
    /\ UNCHANGED <<eq_ab, eq_ba, daVars, baVars>>

\* a == b and b == a are evaluated
EqCompare ==
    /\ eq_pc = "constructed"
    /\ eq_ab' = Some(SfmTrack2dEq(eq_self, eq_other))
    /\ eq_ba' = Some(SfmTrack2dEq(eq_other, eq_self))
    /\ eq_pc' = "compared"
    /\ UNCHANGED <<eq_self, eq_other, daVars, baVars>>

\* ---- the track builder on entries given in either direction
\* rows <<i1, k1, i2, k2>> of entries (i1, i2) and of entries (i2, i1)
OrientedCorrespondences ==
    {c \in Images \X KeypointIdxs \X Images \X KeypointIdxs : c[1] # c[3]}

\* generate_tracks_from_pairwise_matches is called on well-formed keypoints
BuilderCall ==
    /\ pc = "start"
    /\ \E cs \in SUBSET OrientedCorrespondences :
        /\ Cardinality(cs) <= MaxCorr
        /\ corr_idxs' = cs
        /\ matches' = cs
    /\ cameras' = [i \in Images |-> InitialCamera(i)]
    /\ pc' = "check_dims"
    /\ UNCHANGED <<kp_ndim, cur_pair, dsf, num_merges, tracks_2d, error, min_track_len>>
    /\ UNCHANGED <<tri_results, counter, accepted_errs, rejected_errs, triangulated, output>>
    /\ UNCHANGED <<baVars, eqVars>>

NextOrder ==
    \/ BuilderCall
    \/ CheckDims
    \/ Merge
    \/ BuildTracks

NextEq ==
    \/ EqConstruct
    \/ EqCompare

NextBA ==
    \/ BaRunCall
    \/ BaBuildGraph
    \/ BaOptimize
    \/ BaReport

vars == <<daVars, baVars, eqVars>>

Next ==
    \/ RunCall
    \/ CheckDims
    \/ Merge
    \/ BuildTracks
    \/ Triangulate
    \/ SelectAndReport

Spec == Init /\ [][Next]_vars

SpecBA == Init /\ [][NextBA]_vars

SpecEq == Init /\ [][NextEq]_vars

SpecOrder == Init /\ [][NextOrder]_vars

\* ------------------------------------------------- reference definitions
\* the identifiers the correspondences mention
IdsOf(cs) == {Left(c) : c \in cs} \cup {Right(c) : c \in cs}

\* identifiers linked to those of S by a chain of correspondences
RECURSIVE LinkedTo(_, _)
LinkedTo(cs, S) ==
    LET more == {Right(c) : c \in {x \in cs : Left(x) \in S}}
                \cup {Left(c) : c \in {x \in cs : Right(x) \in S}}
    IN IF more \subseteq S THEN S ELSE LinkedTo(cs, S \cup more)

\* the equivalence classes of the correspondences
Classes(cs) == {LinkedTo(cs, {x}) : x \in IdsOf(cs)}

RepeatsImage(class) == \E a, b \in class : a # b /\ a[1] = b[1]

DroppedClasses(cs) == {c \in Classes(cs) : RepeatsImage(c)}
ValidClasses(cs) == {c \in Classes(cs) : ~RepeatsImage(c)}

MeasurementOf(id) == SfmMeasurement(id[1], Coordinates(id[1], id[2]))

MeasurementSet(track_2d) == {track_2d[n] : n \in 1 .. Len(track_2d)}

\* generate_tracks_from_pairwise_matches has returned its list
TracksBuilt == pc \in {"triangulate", "done"} \/ error = "ZeroDivisionError"

\* -------------------------------------------------------------------- C1
\* C1: every track returned by generate_tracks_from_pairwise_matches has no two
\* measurements with the same camera index, and no measurement of an equivalence
\* class that repeats an image index is in any returned track.
InvC1_UniqueCameras ==
    TracksBuilt =>
        /\ \A n \in 1 .. Len(tracks_2d) :
            \A a, b \in 1 .. Len(tracks_2d[n]) :
                a # b => tracks_2d[n][a].i # tracks_2d[n][b].i
        /\ \A class \in DroppedClasses(corr_idxs) :
            \A id \in class : \A n \in 1 .. Len(tracks_2d) :
                MeasurementOf(id) \notin MeasurementSet(tracks_2d[n])

\* a class with a repeated image was dropped while another class was kept
WitC1_ClassDropped ==
    /\ TracksBuilt
    /\ DroppedClasses(corr_idxs) # {}
    /\ Len(tracks_2d) >= 1

\* -------------------------------------------------------------------- C2
\* C2: the returned tracks are exactly the equivalence classes of the identifiers
\* under chains of correspondences, minus the classes with a repeated image:
\* each such class gives exactly one track, holding one measurement per
\* identifier of the class, and there is no other track.
InvC2_TracksAreClasses ==
    TracksBuilt =>
        /\ Len(tracks_2d) = Cardinality(ValidClasses(corr_idxs))
        /\ \A class \in ValidClasses(corr_idxs) :
            Cardinality({n \in 1 .. Len(tracks_2d) :
                /\ MeasurementSet(tracks_2d[n]) = {MeasurementOf(id) : id \in class}
                /\ Len(tracks_2d[n]) = Cardinality(class)}) = 1
        /\ \A n \in 1 .. Len(tracks_2d) :
            \E class \in ValidClasses(corr_idxs) :
                MeasurementSet(tracks_2d[n]) = {MeasurementOf(id) : id \in class}

\* three images, fully connected matches on one landmark: one track of 3
WitC2_ThreeImagesOneTrack ==
    /\ TracksBuilt
    /\ Cardinality(corr_idxs) = 3
    /\ {PairOf(c) : c \in corr_idxs} = {<<0, 1>>, <<0, 2>>, <<1, 2>>}
    /\ Len(tracks_2d) = 1
    /\ Len(tracks_2d[1]) = 3

\* -------------------------------------------------------------------- C3
\* the landmarks among results that are non-null and long enough, in order
RECURSIVE LongEnoughLandmarks(_, _)
LongEnoughLandmarks(results, min_len) ==
    IF results = <<>> THEN <<>>
    ELSE LET r == Head(results)
             rest == LongEnoughLandmarks(Tail(results), min_len)
         IN IF r.sfm_track # NoValue /\ Len(ValueOf(r.sfm_track).measurements) >= min_len
            THEN <<ValueOf(r.sfm_track)>> \o rest
            ELSE rest

\* C3: a triangulated track is added to the scene if and only if the landmark
\* triangulate returned is non-null and has at least min_track_len measurements,
\* whatever the exit code.
InvC3_AcceptIffLongEnough ==
    triangulated.tracks = LongEnoughLandmarks(tri_results, min_track_len)

\* a landmark with exactly min_track_len measurements was added, and a non-null
\* one with fewer was not
WitC3_AcceptedAndTooShort ==
    /\ \E n \in 1 .. Len(tri_results) :
        /\ tri_results[n].sfm_track # NoValue
        /\ Len(ValueOf(tri_results[n].sfm_track).measurements) < min_track_len
    /\ \E n \in 1 .. Len(tri_results) :
        /\ tri_results[n].sfm_track # NoValue
        /\ Len(ValueOf(tri_results[n].sfm_track).measurements) = min_track_len
    /\ Len(triangulated.tracks) = 1

\* -------------------------------------------------------------------- C6
\* C6: DataAssociation.run returns without raising for every input whose
\* keypoint arrays are 2-dimensional, also when the list of 2D tracks is empty.
InvC6_NeverRaisesOnWellFormed ==
    DimsValid => error = "none"

\* -------------------------------------------------------------------- C7
\* C7: if a keypoint array is not 2-dimensional the error is raised before any
\* merge, track, triangulation or SceneModel exists.
InvC7_FailFastOnDims ==
    ~DimsValid =>
        /\ pc \in {"check_dims", "raised"}
        /\ pc = "raised" => error = "dims"
        /\ num_merges = 0
        /\ dsf = EmptyDsf
        /\ tracks_2d = <<>>
        /\ tri_results = <<>>
        /\ triangulated.tracks = <<>>
        /\ output = NoValue

\* the error was raised on an input that has correspondences to merge
WitC7_RaisedOnDims ==
    /\ pc = "raised"
    /\ error = "dims"
    /\ ~DimsValid
    /\ matches # {}

\* -------------------------------------------------------------------- C9
CodeCount(results, code) ==
    Cardinality({n \in 1 .. Len(results) : results[n].code = code})

\* C9: each reported ratio is the number of 2D tracks whose triangulation
\* returned that exit code over the number of 2D tracks; the per-code counts
\* sum to the number of tracks and each ratio lies in [0, 1].
InvC9_RatiosOverInputTracks ==
    pc = "done" =>
        LET m == ValueOf(output).metrics
            n == Len(tracks_2d)
        IN /\ m.triangulation_success_ratio = Ratio(CodeCount(tri_results, "SUCCESS"), n)
           /\ m.cheirality_failure_ratio = Ratio(CodeCount(tri_results, "CHEIRALITY_FAILURE"), n)
           /\ m.small_baseline_failure_ratio = Ratio(CodeCount(tri_results, "SMALL_BASELINE"), n)
           /\ counter["SUCCESS"] + counter["CHEIRALITY_FAILURE"] + counter["SMALL_BASELINE"]
                + counter["EXCEEDS_REPROJ_THRESH"] = n
           /\ \A r \in {m.triangulation_success_ratio, m.cheirality_failure_ratio,
                        m.small_baseline_failure_ratio} :
                r.den > 0 /\ 0 <= r.num /\ r.num <= r.den

\* three tracks, one success, one cheirality failure, one small baseline
WitC9_MixedExitCodes ==
    /\ pc = "done"
    /\ Len(tracks_2d) = 3
    /\ counter["SUCCESS"] = 1
    /\ counter["CHEIRALITY_FAILURE"] = 1
    /\ counter["SMALL_BASELINE"] = 1

\* -------------------------------------------------------------------- C10
\* C10 as stated: the reported metrics account for the classes the track
\* builder dropped, the ratios being proportions among all candidate tracks.
InvC10_DroppedClassesCounted ==
    pc = "done" =>
        LET m == ValueOf(output).metrics
        IN /\ m.accepted_tracks_ratio.den = Cardinality(Classes(corr_idxs))
           /\ m.triangulation_success_ratio.den = Cardinality(Classes(corr_idxs))

\* C10 amended: the classes dropped for duplicate cameras are not counted: every
\* reported ratio is over the number of tracks the builder returned, which is the
\* number of candidate classes minus the dropped ones, and the 2D track lengths
\* and the exit-code counts cover the returned tracks only.
InvC10_DroppedClassesNotCounted ==
    pc = "done" =>
        LET m == ValueOf(output).metrics
            kept == Cardinality(Classes(corr_idxs)) - Cardinality(DroppedClasses(corr_idxs))
        IN /\ m.accepted_tracks_ratio.den = kept
           /\ m.triangulation_success_ratio.den = kept
           /\ m.cheirality_failure_ratio.den = kept
           /\ m.small_baseline_failure_ratio.den = kept
           /\ Len(m.track_lengths_2d) = kept
           /\ Len(tri_results) = kept

\* run reported metrics after the builder dropped a class
WitC10_ReportedAfterDrop ==
    /\ pc = "done"
    /\ DroppedClasses(corr_idxs) # {}

\* -------------------------------------------------------------------- C4
\* C4: if the Levenberg-Marquardt solve raises, run propagates nothing: it logs
\* the exception and returns a SceneModel with zero landmarks and zero cameras,
\* and no step after the solve (error report, metrics, filtering, metrics file)
\* is executed.
InvC4_LmFailureReturnsEmpty ==
    lm_outcome = "raised" =>
        /\ ba_pc = "returned"
        /\ ba_error = "none"
        /\ ba_log = <<"LM Optimization failed">>
        /\ ba_output # NoValue
        /\ number_tracks(ValueOf(ba_output)) = 0
        /\ get_valid_camera_indices(ValueOf(ba_output)) = {}
        /\ ba_steps = <<>>
        /\ optimized = NoValue
        /\ metrics_dict = NoValue

\* the solve raised on a scene that has cameras and landmarks
WitC4_RaisedOnPopulatedScene ==
    /\ lm_outcome = "raised"
    /\ ba_pc = "returned"
    /\ number_tracks(initial_data) >= 1
    /\ get_valid_camera_indices(initial_data) # {}

\* -------------------------------------------------------------------- C5
\* C5: on a SceneModel with zero landmarks, with any number of cameras,
\* BundleAdjustmentOptimizer.run does not raise and what it returns has zero
\* landmarks (the claim adds: and zero cameras).
InvC5_ZeroLandmarksNeverRaises ==
    number_tracks(initial_data) = 0 =>
        /\ ba_error = "none"
        /\ ba_pc # "raised"
        /\ ba_output # NoValue => number_tracks(ValueOf(ba_output)) = 0

\* -------------------------------------------------------------------- C8
CalibrationKeys(values) == {k \in DOMAIN values : k[1] = "k"}

\* C8: with shared_calibration set and at least one camera, the problem holds
\* exactly one calibration variable with an initial value and exactly one
\* calibration prior, whatever the valid camera indices are; every measurement
\* residual and every output camera refers to that variable.
InvC8_OneSharedCalibration ==
    (ba_pc \in {"optimize", "report", "returned", "raised"}
        /\ shared_calib /\ get_valid_camera_indices(initial_data) # {}) =>
        /\ Cardinality(CalibrationKeys(initial_values)) = 1
        /\ Len(graph.calibration_priors) = 1
        /\ \A n \in 1 .. Len(graph.sfm_factors) :
            graph.sfm_factors[n].k \in CalibrationKeys(initial_values)
        /\ (lm_outcome = "ok" /\ ba_output # NoValue) =>
            \A i \in get_valid_camera_indices(ValueOf(ba_output)) :
                \E key \in CalibrationKeys(initial_values) :
                    ValueOf(ba_output).cameras[i].calibration = Optimize(initial_values)[key]

\* -------------------------------------------------------------------- C11
\* the landmarks of tracks whose reprojection error is within thresh, in order
RECURSIVE WithinThresh(_, _, _)
WithinThresh(tracks, errs, thresh) ==
    IF tracks = <<>> THEN <<>>
    ELSE LET rest == WithinThresh(Tail(tracks), Tail(errs), thresh)
         IN IF Head(errs) > thresh THEN rest ELSE <<Head(tracks)>> \o rest

\* C11: after a successful solve run returns the optimized model filtered at
\* output_reproj_error_thresh: it has no more landmarks than the input, every
\* returned landmark has a reprojection error within the threshold, the
\* before_filtering metrics are those of the unfiltered optimized model and the
\* after_filtering metrics those of the returned model.
InvC11_ReturnsFilteredResult ==
    (lm_outcome = "ok" /\ ba_pc = "returned") =>
        LET opt == ValueOf(optimized)
            out == ValueOf(ba_output)
        IN /\ out.tracks = WithinThresh(opt.data.tracks, opt.errs, output_reproj_error_thresh)
           /\ out.cameras = opt.data.cameras
           /\ number_tracks(out) <= number_tracks(initial_data)
           /\ \A t \in 1 .. Len(out.tracks) :
                \E j \in 1 .. Len(opt.data.tracks) :
                    /\ opt.data.tracks[j] = out.tracks[t]
                    /\ opt.errs[j] <= output_reproj_error_thresh
           /\ ValueOf(metrics_dict).before_filtering = aggregate_metrics(opt.data)
           /\ ValueOf(metrics_dict).after_filtering = aggregate_metrics(out)

\* one landmark was filtered out and one, with its error at the threshold, kept
WitC11_OneKeptOneDropped ==
    /\ lm_outcome = "ok"
    /\ ba_pc = "returned"
    /\ number_tracks(initial_data) = 2
    /\ number_tracks(ValueOf(ba_output)) = 1
    /\ \E j \in 1 .. 2 : ValueOf(optimized).errs[j] = output_reproj_error_thresh

\* -------------------------------------------------------------------- C12
\* C12: component selection is idempotent: the scene returned by run is left
\* unchanged by another select_largest_connected_component, and it is one
\* connected component.
InvC12_SelectionIdempotent ==
    pc = "done" =>
        LET data == ValueOf(output).data
        IN /\ select_largest_connected_component(data) = data
           /\ Cardinality(Components(data)) <= 1

\* the selection dropped a camera and kept a landmark
WitC12_SelectionNarrowed ==
    /\ pc = "done"
    /\ ValueOf(output).data # triangulated
    /\ number_tracks(ValueOf(output).data) >= 1

\* -------------------------------------------------------------------- C13
\* b's measurement list is a permutation of a's: the positions can be matched
\* one to one with equal measurements
IsPermutation(a, b) ==
    /\ Len(a) = Len(b)
    /\ \E f \in [1 .. Len(a) -> 1 .. Len(b)] :
         /\ \A m, n \in 1 .. Len(a) : m # n => f[m] # f[n]
         /\ \A n \in 1 .. Len(a) : SfmMeasurementEq(a[n], b[f[n]])

\* C13: for all tracks a and b, a == b holds exactly when b's measurement
\* list is a permutation of a's, and a == b exactly when b == a.
InvC13_EqualIffPermutation ==
    eq_pc = "compared" =>
        /\ ValueOf(eq_ab) = IsPermutation(eq_self, eq_other)
        /\ ValueOf(eq_ab) = ValueOf(eq_ba)

\* -------------------------------------------------------------------- C14
\* every step of run respects the order of the stages
StageOrder ==
    /\ num_merges' # num_merges =>
         /\ pc = "merge"
         /\ tracks_2d = <<>>
         /\ tri_results = <<>>
    /\ tracks_2d' # tracks_2d =>
         /\ matches = {}
         /\ num_merges = Cardinality(corr_idxs)
         /\ tri_results = <<>>
    /\ tri_results' # tri_results =>
         /\ pc = "triangulate"
         /\ num_merges = Cardinality(corr_idxs)
         /\ tracks_2d' = tracks_2d
         /\ Len(tri_results') = Len(tri_results) + 1
         /\ SubSeq(tri_results', 1, Len(tri_results)) = tri_results
    /\ triangulated'.tracks # triangulated.tracks =>
         /\ tri_results' # tri_results
         /\ triangulated'.tracks =
              Append(triangulated.tracks, ValueOf(tri_results'[Len(tri_results')].sfm_track))
    /\ output' # output =>
         /\ Len(tri_results) = Len(tracks_2d)
         /\ triangulated' = triangulated
         /\ ValueOf(output').data = select_largest_connected_component(triangulated)

\* C14: the stages of run are strictly ordered: every merge and the whole
\* list of 2D tracks come before the first triangulation, every landmark is
\* added by the accumulating loop, one per iteration, and the largest
\* connected component is selected only once every track has been
\* triangulated and accumulated.
PropC14_StagesOrdered == [][StageOrder]_vars

\* run has returned after two merges, two triangulations and an accumulation
WitC14_AllStagesRan ==
    /\ pc = "done"
    /\ num_merges >= 2
    /\ Len(tracks_2d) >= 2
    /\ Len(tri_results) = Len(tracks_2d)
    /\ number_tracks(triangulated) >= 1

\* -------------------------------------------------------------------- C15
\* the residual expected for measurement k of track j (j counted from 0)
ExpectedFactor(j, k) ==
    LET m == initial_data.tracks[j + 1].measurements[k]
    IN [uv |-> m.uv, x |-> X(m.i), p |-> P(j),
        k |-> IF shared_calib THEN K(0) ELSE K(m.i)]

MeasurementSlots ==
    {<<j, k>> \in (0 .. MaxTracks) \X (1 .. Cardinality(Images)) :
        /\ j < number_tracks(initial_data)
        /\ k <= Len(initial_data.tracks[j + 1].measurements)}

\* how many entries of a list satisfy a condition given as a set of entries
Occurrences(list, wanted) == Cardinality({n \in 1 .. Len(list) : list[n] \in wanted})

\* C15: once built, the factor graph holds exactly one reprojection residual
\* per measurement of every track, on X(i), P(j) and K(i) (K(0) when the
\* calibration is shared), one pose prior and one pose initial value per valid
\* camera and one landmark initial value per track; with per-camera
\* calibration also one calibration prior and one calibration initial value
\* per valid camera.
InvC15_GraphStructure ==
    ba_pc \notin {"start", "build"} =>
        LET valid == get_valid_camera_indices(initial_data)
            tracks == 0 .. (number_tracks(initial_data) - 1)
        IN /\ Len(graph.sfm_factors) = Cardinality(MeasurementSlots)
           /\ \A s \in MeasurementSlots :
                Occurrences(graph.sfm_factors, {ExpectedFactor(s[1], s[2])}) = 1
           /\ Len(graph.pose_priors) = Cardinality(valid)
           /\ \A i \in valid :
                /\ Occurrences(graph.pose_priors,
                               {[key |-> X(i), prior |-> initial_data.cameras[i].pose]}) = 1
                /\ X(i) \in DOMAIN initial_values
                /\ initial_values[X(i)] = initial_data.cameras[i].pose
           /\ \A j \in tracks :
                /\ P(j) \in DOMAIN initial_values
                /\ initial_values[P(j)] = initial_data.tracks[j + 1].point3
           /\ {key \in DOMAIN initial_values : key[1] = "x"} = {X(i) : i \in valid}
           /\ {key \in DOMAIN initial_values : key[1] = "p"} = {P(j) : j \in tracks}
           /\ ~shared_calib =>
                /\ Len(graph.calibration_priors) = Cardinality(valid)
                /\ {key \in DOMAIN initial_values : key[1] = "k"} = {K(i) : i \in valid}
                /\ \A i \in valid :
                     /\ Occurrences(graph.calibration_priors,
                            {[key |-> K(i), prior |-> initial_data.cameras[i].calibration]}) = 1
                     /\ initial_values[K(i)] = initial_data.cameras[i].calibration

\* a graph was built for two tracks seen by three cameras, calibration per camera
WitC15_TwoTracksPerCameraCalibration ==
    /\ ba_pc = "optimize"
    /\ ~shared_calib
    /\ number_tracks(initial_data) = 2
    /\ Cardinality(get_valid_camera_indices(initial_data)) = 3
    /\ Len(graph.sfm_factors) >= 5

\* -------------------------------------------------------------------- C16
RECURSIVE SumCounter(_, _)
SumCounter(c, codes) ==
    IF codes = {} THEN 0
    ELSE LET code == CHOOSE x \in codes : TRUE
         IN c[code] + SumCounter(c, codes \ {code})

\* one pass of the accumulating loop: one increment, one entry in one list
OneEntryPerTrack ==
    /\ tri_results' # tri_results =>
         LET r == tri_results'[Len(tri_results')]
         IN /\ counter' = [counter EXCEPT ![r.code] = @ + 1]
            /\ IF number_tracks(triangulated') = number_tracks(triangulated) + 1
               THEN /\ accepted_errs' = Append(accepted_errs, r.avg_err)
                    /\ rejected_errs' = rejected_errs
               ELSE /\ triangulated' = triangulated
                    /\ rejected_errs' = Append(rejected_errs, r.avg_err)
                    /\ accepted_errs' = accepted_errs
    /\ tri_results' = tri_results =>
         /\ counter' = counter
         /\ accepted_errs' = accepted_errs
         /\ rejected_errs' = rejected_errs

ListsPartitionTracks ==
    /\ SumCounter(counter, DOMAIN counter) = Len(tri_results)
    /\ Len(accepted_errs) + Len(rejected_errs) = Len(tri_results)
    /\ Len(accepted_errs) = number_tracks(triangulated)
    /\ pc = "done" => Len(accepted_errs) + Len(rejected_errs) = Len(tracks_2d)

\* C16: in the accumulating loop every 2D track gives exactly one counter
\* increment and exactly one entry in exactly one of the two error lists
\* (accepted when its landmark was added, rejected otherwise, whatever the
\* exit code), so the two lists together are as long as the list of 2D
\* tracks and the accepted list as long as the list of landmarks added
\* before the component selection.
PropC16_OneEntryPerTrack == [][OneEntryPerTrack]_vars /\ []ListsPartitionTracks

\* run returned with a landmark accepted and a track rejected although its
\* exit code was not EXCEEDS_REPROJ_THRESH
WitC16_AcceptedAndRejected ==
    /\ pc = "done"
    /\ Len(accepted_errs) >= 1
    /\ Len(rejected_errs) >= 1
    /\ counter["EXCEEDS_REPROJ_THRESH"] = 0

\* -------------------------------------------------------------------- C17
\* a row with its two sides swapped so that the smaller image index is first
LeftFirst(c) == IF c[1] < c[3] THEN c ELSE <<c[3], c[4], c[1], c[2]>>

RowLess(a, b) ==
    \/ PairLess(Left(a), Left(b))
    \/ Left(a) = Left(b) /\ PairLess(Right(a), Right(b))

\* the forest after merging the rows one by one in increasing order
RECURSIVE MergeInOrder(_, _)
MergeInOrder(d, rows) ==
    IF rows = {} THEN d
    ELSE LET c == CHOOSE x \in rows : \A o \in rows : x = o \/ RowLess(x, o)
         IN MergeInOrder(MergeRow(d, c), rows \ {c})

\* the tracks built from the rows taken left side first, in increasing order
TracksInOrder(cs) ==
    LET key_set == DsfSets(MergeInOrder(EmptyDsf, {LeftFirst(c) : c \in cs}))
    IN TracksOfSets(key_set, SortedPairs(DOMAIN key_set))

TrackSets(tracks) == {MeasurementSet(tracks[n]) : n \in 1 .. Len(tracks)}

\* C17: the returned tracks do not depend on the order of the merges: whatever
\* the order of the entries, of the rows within an entry and of the two sides
\* of a correspondence, the tracks are, as sets of measurements, those built
\* from the same rows in one fixed order, none duplicated and none lost.
InvC17_MergeOrderIndependent ==
    pc = "triangulate" =>
        /\ TrackSets(tracks_2d) = TrackSets(TracksInOrder(corr_idxs))
        /\ Len(tracks_2d) = Len(TracksInOrder(corr_idxs))
        /\ Cardinality(TrackSets(tracks_2d)) = Len(tracks_2d)
        /\ TrackSets(tracks_2d) =
             {{MeasurementOf(id) : id \in class} : class \in ValidClasses(corr_idxs)}

\* a track over three images was built from rows given right side first
WitC17_ChainGivenBackwards ==
    /\ pc = "triangulate"
    /\ num_merges >= 2
    /\ \A c \in corr_idxs : c[1] > c[3]
    /\ \E n \in 1 .. Len(tracks_2d) : Len(tracks_2d[n]) = 3

\* -------------------------------------------------------------------- C18
\* the result of values_to_gtsfm_data has the structure of its input
StructurePreserved ==
    optimized # NoValue =>
        LET result == ValueOf(optimized).data
            values == Optimize(initial_values)
        IN /\ result.number_images = initial_data.number_images
           /\ get_valid_camera_indices(result) = get_valid_camera_indices(initial_data)
           /\ number_tracks(result) = number_tracks(initial_data)
           /\ \A j \in 1 .. number_tracks(initial_data) :
                /\ result.tracks[j].measurements = initial_data.tracks[j].measurements
                /\ result.tracks[j].point3 = values[P(j - 1)]

\* the call leaves its argument as it was
InputUntouched == ba_pc = "report" => initial_data' = initial_data

\* C18: values_to_gtsfm_data preserves the structure and leaves its input
\* alone: the result has the same number of images, the same valid camera
\* indices and the same number of tracks, result track j has the measurements
\* of input track j in the same order with only the 3D point replaced by the
\* value of P(j), and initial_data is unchanged by the call.
PropC18_StructurePreserved == []StructurePreserved /\ [][InputUntouched]_vars

\* the optimized values were cast for two different tracks over two of the cameras
WitC18_TwoTracksCast ==
    /\ optimized # NoValue
    /\ number_tracks(initial_data) = 2
    /\ initial_data.tracks[1].measurements # initial_data.tracks[2].measurements
    /\ Cardinality(get_valid_camera_indices(initial_data)) = 3
    /\ ValueOf(optimized).data.tracks[2].point3 # initial_data.tracks[2].point3

====
